---- MODULE Spec2Model ----
(***************************************************************************)
(* AgentTrust: the trust-score engine (services/scoringEngine.js), the      *)
(* admission gate (middleware/x402.js), the score route and its Firestore   *)
(* cache (api/score.js), wired as in index.js.                              *)
(*                                                                          *)
(* Strings the code inspects character by character (addresses, request     *)
(* paths) are sequences of one-character strings.  Times are whole seconds. *)
(***************************************************************************)
EXTENDS Integers, Sequences, FiniteSets, TLC

VARIABLES
    \* ---- scoring engine, called directly (EngineSpec)
    transactions,     \* calculateTrustScore's first argument
    tokenTransfers,   \* its second argument
    balanceWei,       \* its third argument (in units of 10^9 wei)
    result,           \* <<the ScoreRecord of the last call>>, or <<>> before it
    earlier,          \* <<the ScoreRecord of the call before, on the same
                      \* arguments>>, or <<>>
    \* ---- getGrade, called directly (GradeSpec)
    gradeIn,          \* the score last passed to getGrade, or -1
    gradeOut,         \* <<what getGrade returned for it>>, or <<>>
    \* ---- the service
    masterKey,        \* process.env.MASTER_API_KEY, "" when it is not set
    colonParams,      \* whether the installed x402-express reads ":name" in a
                      \* route key as a parameter (else as literal text)
    scores,           \* Firestore collection 'scores': address -> document
    usage,            \* Firestore collection 'usage': identifier -> totalCalls
    pendingUsage,     \* incrementUsage calls started and not yet settled
    clock,            \* Date.now() / 1000
    ticks,            \* how often the clock has advanced
    req,              \* per request: path, x-api-key, payment proof, ?full
    pc,               \* per request: where it is in the middleware chain
    work,             \* per request: the handler's locals
    resp,             \* per request: <<the response sent>>, or <<>>
    events            \* per request: the I/O it has performed so far

engineVars == <<transactions, tokenTransfers, balanceWei, result, earlier>>
gradeVars == <<gradeIn, gradeOut>>
svcVars == <<masterKey, colonParams, scores, usage, pendingUsage, clock, ticks,
             req, pc, work, resp, events>>
vars == <<engineVars, gradeVars, svcVars>>

\* JavaScript's null, where a field holds either null or a value <<v>>.
Null == <<>>

(***************************************************************************)
(* Characters and String.prototype.toLowerCase                              *)
(***************************************************************************)
UpperAlpha == <<"A","B","C","D","E","F","G","H","I","J","K","L","M",
                "N","O","P","Q","R","S","T","U","V","W","X","Y","Z">>
LowerAlpha == <<"a","b","c","d","e","f","g","h","i","j","k","l","m",
                "n","o","p","q","r","s","t","u","v","w","x","y","z">>

LowerChar(c) ==
    IF \E i \in DOMAIN UpperAlpha : UpperAlpha[i] = c
    THEN LowerAlpha[CHOOSE i \in DOMAIN UpperAlpha : UpperAlpha[i] = c]
    ELSE c

ToLowerCase(s) == [i \in DOMAIN s |-> LowerChar(s[i])]

Repeat(c, n) == [i \in 1..n |-> c]

(***************************************************************************)
(* Time                                                                     *)
(***************************************************************************)
DAY == 86400
WEEK == 7 * DAY
\* Date.now() / 1000 at the moment the engine is called directly.
EngineNow == 400 * DAY

Min(S) == CHOOSE x \in S : \A y \in S : x <= y
Max(S) == CHOOSE x \in S : \A y \in S : x >= y
\* Math.ceil(a / b) and Math.round(a / b) for a >= 0, b > 0.
CeilDiv(a, b) == (a + b - 1) \div b
RoundDiv(a, b) == (2 * a + b) \div (2 * b)

(***************************************************************************)
(* scoringEngine.js                                                         *)
(***************************************************************************)
Timestamps(txs) == {txs[i].timeStamp : i \in DOMAIN txs}

MutGetGradeStrict(score) ==
    IF score > 90 THEN [letter |-> "AAA", label |-> "Ultra Reliable"]
    ELSE IF score >= 75 THEN [letter |-> "AA", label |-> "Very Reliable"]
    ELSE IF score >= 60 THEN [letter |-> "A", label |-> "Reliable"]
    ELSE IF score >= 40 THEN [letter |-> "BBB", label |-> "Moderate"]
    ELSE IF score >= 20 THEN [letter |-> "BB", label |-> "Risky"]
    ELSE [letter |-> "C", label |-> "No History / Dangerous"]

getGrade(score) ==
    IF score >= 90 THEN [letter |-> "AAA", label |-> "Ultra Reliable"]
    ELSE IF score >= 75 THEN [letter |-> "AA", label |-> "Very Reliable"]
    ELSE IF score >= 60 THEN [letter |-> "A", label |-> "Reliable"]
    ELSE IF score >= 40 THEN [letter |-> "BBB", label |-> "Moderate"]
    ELSE IF score >= 20 THEN [letter |-> "BB", label |-> "Risky"]
    ELSE [letter |-> "C", label |-> "No History / Dangerous"]

MutCalculateAgeScoreFromLatest(txs, now) ==
    IF Len(txs) = 0 THEN [score |-> 0, detail |-> <<"No transactions">>]
    ELSE LET ageSec == now - Max(Timestamps(txs))
             score == IF ageSec >= 365 * DAY THEN 100
                      ELSE IF ageSec >= 180 * DAY THEN 85
                      ELSE IF ageSec >= 90 * DAY THEN 70
                      ELSE IF ageSec >= 30 * DAY THEN 50
                      ELSE IF ageSec >= 7 * DAY THEN 30
                      ELSE 10
         IN [score |-> score, detail |-> <<"Wallet age", ageSec \div DAY>>]

calculateAgeScore(txs, now) ==
    IF Len(txs) = 0 THEN [score |-> 0, detail |-> <<"No transactions">>]
    ELSE LET firstTx == Min(Timestamps(txs))
             ageSec == now - firstTx
             score == IF ageSec >= 365 * DAY THEN 100
                      ELSE IF ageSec >= 180 * DAY THEN 85
                      ELSE IF ageSec >= 90 * DAY THEN 70
                      ELSE IF ageSec >= 30 * DAY THEN 50
                      ELSE IF ageSec >= 7 * DAY THEN 30
                      ELSE 10
         IN [score |-> score, detail |-> <<"Wallet age", ageSec \div DAY>>]

calculateVolumeScore(txs, tts) ==
    LET total == Len(txs) + Len(tts)
        score == IF total >= 1000 THEN 100
                 ELSE IF total >= 500 THEN 90
                 ELSE IF total >= 200 THEN 80
                 ELSE IF total >= 100 THEN 70
                 ELSE IF total >= 50 THEN 55
                 ELSE IF total >= 20 THEN 40
                 ELSE IF total >= 5 THEN 25
                 ELSE 10
    IN [score |-> score, detail |-> <<"total", total, Len(txs), Len(tts)>>]

IsSuccess(tx) == tx.isError = "0" \/ tx.txreceipt_status = "1"

calculateSuccessRate(txs) ==
    IF Len(txs) = 0 THEN [score |-> 0, detail |-> <<"No transactions">>]
    ELSE LET successful == Cardinality({i \in DOMAIN txs : IsSuccess(txs[i])})
             total == Len(txs)
             \* rate = successful / total * 100, compared without dividing
             score == IF successful * 100 >= 99 * total THEN 100
                      ELSE IF successful * 100 >= 95 * total THEN 90
                      ELSE IF successful * 100 >= 90 * total THEN 75
                      ELSE IF successful * 100 >= 80 * total THEN 60
                      ELSE IF successful * 100 >= 70 * total THEN 40
                      ELSE 20
         IN [score |-> score, detail |-> <<"success rate", successful, total>>]

MutCounterpartiesKeepCase(list) ==
    {list[i].to : i \in {j \in DOMAIN list : list[j].to # <<>>}}
    \cup
    {list[i].from : i \in {j \in DOMAIN list : list[j].from # <<>>}}

\* The Set of lowercased to/from strings of a list; an empty string is falsy.
Counterparties(list) ==
    {ToLowerCase(list[i].to) : i \in {j \in DOMAIN list : list[j].to # <<>>}}
    \cup
    {ToLowerCase(list[i].from) : i \in {j \in DOMAIN list : list[j].from # <<>>}}

calculateDiversityScore(txs, tts) ==
    LET count == Cardinality(Counterparties(txs) \cup Counterparties(tts))
        score == IF count >= 100 THEN 100
                 ELSE IF count >= 50 THEN 85
                 ELSE IF count >= 20 THEN 70
                 ELSE IF count >= 10 THEN 55
                 ELSE IF count >= 5 THEN 35
                 ELSE 15
    IN [score |-> score, detail |-> <<"unique counterparties", count>>]

\* activeWeeks: the Set of floor((ts - firstTx) / (7 * 86400)).
ActiveWeeks(txs) ==
    LET firstTx == Min(Timestamps(txs))
    IN {(ts - firstTx) \div WEEK : ts \in Timestamps(txs)}

SpanSeconds(txs) == Max(Timestamps(txs)) - Min(Timestamps(txs))

\* totalWeeks = Math.max(1, Math.ceil(totalSpanDays / 7))
TotalWeeks(txs) ==
    LET c == CeilDiv(SpanSeconds(txs), WEEK)
    IN IF c >= 1 THEN c ELSE 1

calculateConsistencyScore(txs) ==
    IF Len(txs) < 2 THEN [score |-> 10, detail |-> <<"Insufficient data">>]
    ELSE IF SpanSeconds(txs) < DAY
    THEN [score |-> 15, detail |-> <<"All activity in a single day">>]
    ELSE LET active == Cardinality(ActiveWeeks(txs))
             totalWeeks == TotalWeeks(txs)
             \* activityRate = active / totalWeeks * 100
             score == IF active * 100 >= 80 * totalWeeks THEN 100
                      ELSE IF active * 100 >= 60 * totalWeeks THEN 80
                      ELSE IF active * 100 >= 40 * totalWeeks THEN 60
                      ELSE IF active * 100 >= 20 * totalWeeks THEN 40
                      ELSE 20
         IN [score |-> score,
             detail |-> <<"Active", active, totalWeeks,
                          RoundDiv(active * 100, totalWeeks)>>]

MutWeightedTotalPerFactorRounding(a, v, s, d, c) ==
    RoundDiv(20 * a, 100) + RoundDiv(20 * v, 100) + RoundDiv(25 * s, 100)
    + RoundDiv(15 * d, 100) + RoundDiv(20 * c, 100)

\* Math.round(a*0.20 + v*0.20 + s*0.25 + d*0.15 + c*0.20): the sum in
\* hundredths, rounded half up.  (Over every combination of factor values the
\* engine can produce, the double-precision result is this integer.)
WeightedTotal(a, v, s, d, c) ==
    RoundDiv(20 * a + 20 * v + 25 * s + 15 * d + 20 * c, 100)

\* (parseInt(balanceWei) / 1e18).toFixed(6), as a count of millionths of ETH;
\* balanceWei is held in units of 10^9 wei.
BalanceETH(bal) == RoundDiv(bal, 1000)

MutEmptyRecordFactorFloors ==
    [score |-> 0, grade |-> "C", label |-> "No History",
     factors |-> [age |-> [score |-> 0, detail |-> <<"No transactions">>],
                  volume |-> [score |-> 10, detail |-> <<"total", 0, 0, 0>>],
                  successRate |-> [score |-> 0, detail |-> <<"No transactions">>],
                  diversity |-> [score |-> 15, detail |-> <<"unique counterparties", 0>>],
                  consistency |-> [score |-> 10, detail |-> <<"Insufficient data">>]],
     metadata |-> [totalTransactions |-> 0, totalTokenTransfers |-> 0,
                   balanceETH |-> 0, firstSeen |-> Null, lastSeen |-> Null]]

EmptyRecord ==
    [score |-> 0, grade |-> "C", label |-> "No History",
     factors |-> [age |-> [score |-> 0, detail |-> <<"No transactions found">>],
                  volume |-> [score |-> 0, detail |-> <<"0 transactions">>],
                  successRate |-> [score |-> 0, detail |-> <<"N/A">>],
                  diversity |-> [score |-> 0, detail |-> <<"0 unique counterparties">>],
                  consistency |-> [score |-> 0, detail |-> <<"No activity pattern">>]],
     metadata |-> [totalTransactions |-> 0, totalTokenTransfers |-> 0,
                   balanceETH |-> 0, firstSeen |-> Null, lastSeen |-> Null]]

calculateTrustScore(txs, tts, bal, now) ==
    IF Len(txs) + Len(tts) = 0 THEN EmptyRecord
    ELSE LET ageScore == calculateAgeScore(txs, now)
             volumeScore == calculateVolumeScore(txs, tts)
             successScore == calculateSuccessRate(txs)
             diversityScore == calculateDiversityScore(txs, tts)
             consistencyScore == calculateConsistencyScore(txs)
             totalScore == WeightedTotal(ageScore.score, volumeScore.score,
                                         successScore.score, diversityScore.score,
                                         consistencyScore.score)
             grade == getGrade(totalScore)
         IN [score |-> totalScore, grade |-> grade.letter, label |-> grade.label,
             factors |-> [age |-> ageScore, volume |-> volumeScore,
                          successRate |-> successScore,
                          diversity |-> diversityScore,
                          consistency |-> consistencyScore],
             metadata |-> [totalTransactions |-> Len(txs),
                           totalTokenTransfers |-> Len(tts),
                           balanceETH |-> BalanceETH(bal),
                           firstSeen |-> IF Len(txs) > 0
                                         THEN <<Min(Timestamps(txs))>> ELSE Null,
                           lastSeen |-> IF Len(txs) > 0
                                        THEN <<Max(Timestamps(txs))>> ELSE Null,
                           analyzedAt |-> now]]

(***************************************************************************)
(* Inputs of the engine when it is called directly                          *)
(***************************************************************************)
MaxTx == 3
MaxTransfers == 2

DigitChar == <<"0","1","2","3","4","5","6","7","8","9">>

RECURSIVE Digits(_)
Digits(n) ==
    IF n < 10 THEN <<DigitChar[n + 1]>>
    ELSE Append(Digits(n \div 10), DigitChar[(n % 10) + 1])

\* The queried wallet and some counterparties; PartyA and PartyAUpper are one
\* address in two letter cases.
Wallet == <<"0","x","e","e">>
PartyA == <<"0","x","a","1">>
PartyAUpper == <<"0","x","A","1">>
PartyB == <<"0","x","b","2">>
PartyC == <<"0","x","c","3">>
Party(i) == <<"0","x","d">> \o Digits(i)
PartyUpper(i) == <<"0","x","D">> \o Digits(i)

Tx(ts, isError, status, from, to) ==
    [timeStamp |-> ts, isError |-> isError, txreceipt_status |-> status,
     from |-> from, to |-> to]

EngineT0 == EngineNow - 200 * DAY

TxPool ==
    { Tx(EngineT0, "0", "1", Wallet, PartyA),
      Tx(EngineT0 + WEEK, "0", "1", PartyAUpper, Wallet),
      Tx(EngineT0 + 10 * DAY, "1", "0", Wallet, PartyB),
      \* the two indicators disagree; a contract creation has no "to"
      Tx(EngineT0 + DAY - 1, "1", "1", Wallet, <<>>),
      Tx(EngineNow - 400 * DAY, "0", "", PartyC, Wallet),
      Tx(EngineNow - 3 * DAY, "1", "", Wallet, PartyA) }

TransferPool ==
    { [from |-> PartyA, to |-> Wallet],
      [from |-> Wallet, to |-> PartyC] }

BalancePool == {0, 1500}

\* Long histories: k transactions `step` seconds apart, every failEvery-th one
\* failed, sent to `parties` counterparties in alternating letter case.
BulkTxs(k, step, failEvery, parties) ==
    [i \in 1..k |->
        Tx(EngineNow - 400 * DAY + i * step,
           IF failEvery > 0 /\ i % failEvery = 0 THEN "1" ELSE "0",
           "",
           Wallet,
           IF (i \div parties) % 2 = 0 THEN Party(i % parties)
                                        ELSE PartyUpper(i % parties))]

BulkTransfers(m) == [i \in 1..m |-> [from |-> Party(i % 7), to |-> Wallet]]

\* Histories with a given number n of distinct counterparties (the wallet
\* and n - 1 others), each of the others once as "to" in lower case and once
\* as "from" in upper case.
PartyTxs(n) ==
    [i \in 1..(2 * (n - 1)) |->
        IF i < n THEN Tx(EngineT0 + i, "0", "1", Wallet, Party(i))
        ELSE Tx(EngineT0 + i, "0", "1", PartyUpper(i - n + 1), Wallet)]

\* On both sides of every threshold of calculateDiversityScore.
PartyCounts == {4, 5, 9, 10, 19, 20, 49, 50, 99, 100}

BulkSizes == {5, 20, 100, 500}
BulkSteps == {3600, 2 * DAY}
BulkFailEvery == {0, 20}
BulkParties == {3, 25, 120}
BulkTransferSizes == {0, 500}

EngineInit0 ==
    /\ transactions = <<>>
    /\ tokenTransfers = <<>>
    /\ balanceWei = 0
    /\ result = <<>>
    /\ earlier = <<>>

GradeInit0 ==
    /\ gradeIn = -1
    /\ gradeOut = <<>>

(***************************************************************************)
(* Request paths and addresses                                              *)
(***************************************************************************)
WScore == <<"s","c","o","r","e">>
WApi == <<"a","p","i">>
WHealth == <<"h","e","a","l","t","h">>
WDocs == <<"d","o","c","s">>
WTest402 == <<"t","e","s","t","-","4","0","2">>
WColonAddress == <<":","a","d","d","r","e","s","s">>
WScoreMixed == <<"S","c","o","r","e">>
WApiUpper == <<"A","P","I">>
WHealthUpper == <<"H","E","A","L","T","H">>
WOther == <<"a","d","m","i","n">>

\* A path is its segments; `lead` says whether it starts with a slash, as
\* every req.path does.
Path(segs) == [lead |-> TRUE, segs |-> segs]
PathNoSlash(segs) == [lead |-> FALSE, segs |-> segs]
PathToLowerCase(p) ==
    [lead |-> p.lead, segs |-> [i \in DOMAIN p.segs |-> ToLowerCase(p.segs[i])]]

\* The address of the route table and of the README, mixed-case as written
\* there, and the same address in lower case.
AddrD ==
    <<"0", "x", "d", "8", "d", "A", "6", "B", "F", "2", "6", "9", "6", "4",
      "a", "F", "9", "D", "7", "e", "E", "d", "9", "e", "0", "3", "E", "5",
      "3", "4", "1", "5", "D", "3", "7", "a", "A", "9", "6", "0", "4", "5">>
AddrDLower ==
    <<"0", "x", "d", "8", "d", "a", "6", "b", "f", "2", "6", "9", "6", "4",
      "a", "f", "9", "d", "7", "e", "e", "d", "9", "e", "0", "3", "e", "5",
      "3", "4", "1", "5", "d", "3", "7", "a", "a", "9", "6", "0", "4", "5">>
AddrA == <<"0","x">> \o Repeat("a", 40)
AddrShort == <<"0","x">> \o Repeat("a", 39)
AddrNonHex == <<"0","x","g">> \o Repeat("a", 39)

ValidAddresses == {AddrD, AddrDLower, AddrA}
MalformedAddresses == {AddrShort, AddrNonHex}
Addresses == ValidAddresses \cup MalformedAddresses

HexChars == {"0","1","2","3","4","5","6","7","8","9",
             "a","b","c","d","e","f","A","B","C","D","E","F"}
HexLen == 40

MutIsValidAddressNoLength(address) ==
    /\ Len(address) >= 2
    /\ address[1] = "0" /\ address[2] = "x"
    /\ \A i \in 3..Len(address) : address[i] \in HexChars

\* address && /^0x[a-fA-F0-9]{40}$/.test(address)
IsValidAddress(address) ==
    /\ Len(address) = 2 + HexLen
    /\ address[1] = "0" /\ address[2] = "x"
    /\ \A i \in 3..(2 + HexLen) : address[i] \in HexChars

(***************************************************************************)
(* middleware/x402.js: configuration                                        *)
(***************************************************************************)
RECIPIENT_WALLET == "0x9eD986438138110AeC1388311b0944A435feDA70"

\* The routes object handed to paymentMiddleware, key by key as written.
RouteTable ==
    { [key |-> Path(<<WTest402>>), price |-> "$0.01", network |-> "base"],
      [key |-> Path(<<WApi, WTest402>>), price |-> "$0.01", network |-> "base"],
      [key |-> PathNoSlash(<<WScore, WColonAddress>>),
       price |-> "$0.01", network |-> "base"],
      [key |-> Path(<<WApi, WScore, WColonAddress>>),
       price |-> "$0.01", network |-> "base"],
      [key |-> Path(<<WApi, WScore, AddrD>>),
       price |-> "$0.01", network |-> "base"] }

\* Firestore collection 'apiKeys': the per-issued keys.
ApiKeyDocs ==
    [k \in {"k1", "k2"} |->
        IF k = "k1" THEN [owner |-> "alice", active |-> TRUE]
                    ELSE [owner |-> "bob", active |-> FALSE]]

\* What an x-api-key header may hold: nothing, the master key, an active key,
\* a deactivated key, a key with no record.
KeyIds == {"mk", "k1", "k2", "k3"}
ApiKeyHeaders == {""} \cup KeyIds

(***************************************************************************)
(* The blockchain as the data port (basescanService.js) reports it          *)
(***************************************************************************)
ChainT0 == EngineNow - 200 * DAY

ChainData(address) ==
    IF ToLowerCase(address) = AddrDLower
    THEN [transactions |-> << Tx(ChainT0, "0", "1", AddrD, PartyA),
                              Tx(ChainT0 + 10 * DAY, "0", "1", PartyB, AddrDLower) >>,
          tokenTransfers |-> << [from |-> PartyA, to |-> AddrDLower] >>,
          balance |-> 1500]
    ELSE [transactions |-> <<>>, tokenTransfers |-> <<>>, balance |-> 0]

FetchOutcomes == {"ok", "error", "throw"}

\* getTransactionHistory / getTokenTransfers: data.result when the reply has
\* status '1' and an array, [] otherwise; a failed fetch or unparsable body
\* throws (decided by the caller from the outcome).
getTransactionHistory(address, outcome) ==
    IF outcome = "ok" THEN ChainData(address).transactions ELSE <<>>
getTokenTransfers(address, outcome) ==
    IF outcome = "ok" THEN ChainData(address).tokenTransfers ELSE <<>>
\* getBalance: data.result when status is '1', '0' otherwise.
getBalance(address, outcome) ==
    IF outcome = "ok" THEN ChainData(address).balance ELSE 0

(***************************************************************************)
(* The service: state                                                       *)
(***************************************************************************)
CACHE_TTL == 3600
MaxTicks == 2
NumReq == 2
MaxFailures == 1

\* { ...a, ...b }
Merge(a, b) ==
    [k \in DOMAIN a \cup DOMAIN b |-> IF k \in DOMAIN b THEN b[k] ELSE a[k]]

NoRequest == <<>>
NoWork ==
    [normalizedAddress |-> <<>>, apiKeyData |-> Null, readOk |-> FALSE,
     seenAge |-> -1, hit |-> FALSE, failed |-> {}, scoreResult |-> Null]

SvcInit(slots, masterKeys, colonOptions) ==
    /\ masterKey \in masterKeys
    /\ colonParams \in colonOptions
    /\ scores = <<>>
    /\ usage = [k \in KeyIds |-> 0]
    /\ pendingUsage = [k \in KeyIds |-> 0]
    /\ clock = EngineNow
    /\ ticks = 0
    /\ req = [r \in slots |-> NoRequest]
    /\ pc = [r \in slots |-> "idle"]
    /\ work = [r \in slots |-> NoWork]
    /\ resp = [r \in slots |-> Null]
    /\ events = [r \in slots |-> {}]

\* The service at rest, while the engine or getGrade is called directly.
SvcInit0 == SvcInit({}, {""}, {FALSE})

Respond(r, status, body) ==
    /\ resp' = [resp EXCEPT ![r] = <<[status |-> status, body |-> body]>>]
    /\ pc' = [pc EXCEPT ![r] = "done"]

Note(r, what) == events' = [events EXCEPT ![r] = @ \cup what]

(***************************************************************************)
(* middleware/x402.js: authMiddleware, validateApiKey, incrementUsage and   *)
(* the x402-express payment middleware                                      *)
(***************************************************************************)
FreePaths ==
    { Path(<<WHealth>>), Path(<<WApi, WHealth>>),
      Path(<<WDocs>>), Path(<<WApi, WDocs>>) }

\* A request arrives (requests are numbered in order of arrival) and
\* authMiddleware runs up to its first asynchronous call.
AuthMiddleware(r, request) ==
    /\ pc[r] = "idle"
    /\ \A q \in DOMAIN pc : q < r => pc[q] # "idle"
    /\ req' = [req EXCEPT ![r] = request]
    /\ LET path == PathToLowerCase(request.path)
       IN IF path \in FreePaths
          THEN pc' = [pc EXCEPT ![r] = "router"] /\ Note(r, {"next"})
          ELSE IF request.apiKey # ""
          THEN pc' = [pc EXCEPT ![r] = "validating"] /\ Note(r, {})
          ELSE pc' = [pc EXCEPT ![r] = "x402"] /\ Note(r, {})
    /\ UNCHANGED <<masterKey, colonParams, scores, usage, pendingUsage, clock,
                   ticks, work, resp, engineVars, gradeVars>>

\* Whether validateApiKey reads the apiKeys collection for this key.
NeedsStoreLookup(apiKey) == masterKey # "" /\ apiKey # masterKey

MutValidateApiKeyMasterOnly(apiKey, storeOk) ==
    IF masterKey = "" THEN [threw |-> FALSE, keyData |-> Null]
    ELSE IF apiKey = masterKey
    THEN [threw |-> FALSE, keyData |-> <<[owner |-> "master"]>>]
    ELSE IF ~storeOk THEN [threw |-> TRUE, keyData |-> Null]
    ELSE [threw |-> FALSE, keyData |-> Null]

\* validateApiKey: what the promise settles to.  storeOk: whether the
\* Firestore read succeeds.
validateApiKey(apiKey, storeOk) ==
    IF masterKey = "" THEN [threw |-> FALSE, keyData |-> Null]
    ELSE IF apiKey = masterKey
    THEN [threw |-> FALSE, keyData |-> <<[owner |-> "master"]>>]
    ELSE IF ~storeOk THEN [threw |-> TRUE, keyData |-> Null]
    ELSE IF apiKey \in DOMAIN ApiKeyDocs /\ ApiKeyDocs[apiKey].active
    THEN [threw |-> FALSE, keyData |-> <<ApiKeyDocs[apiKey]>>]
    ELSE [threw |-> FALSE, keyData |-> Null]

\* The .then / .catch of authMiddleware: admit and start incrementUsage, or
\* fall back to the payment middleware.
ValidateApiKey(r, storeOk) ==
    /\ pc[r] = "validating"
    /\ storeOk \/ NeedsStoreLookup(req[r].apiKey)
    /\ LET apiKey == req[r].apiKey
           v == validateApiKey(apiKey, storeOk)
           looked == IF ~NeedsStoreLookup(apiKey) THEN {}
                     ELSE IF storeOk THEN {"storeLookup"}
                     ELSE {"storeLookup", "storeLookupFailed"}
       IN IF ~v.threw /\ v.keyData # Null
          THEN /\ work' = [work EXCEPT ![r].apiKeyData = v.keyData]
               /\ pendingUsage' = [pendingUsage EXCEPT ![apiKey] = @ + 1]
               /\ pc' = [pc EXCEPT ![r] = "router"]
               /\ Note(r, looked \cup {"usageIncrement", "next"})
          ELSE /\ pc' = [pc EXCEPT ![r] = "x402"]
               /\ Note(r, looked)
               /\ UNCHANGED <<work, pendingUsage>>
    /\ UNCHANGED <<masterKey, colonParams, scores, usage, clock, ticks, req,
                   resp, engineVars, gradeVars>>

MutIncrementUsageResetsOnFailure(identifier, ok) ==
    /\ pendingUsage[identifier] > 0
    /\ pendingUsage' = [pendingUsage EXCEPT ![identifier] = @ - 1]
    /\ usage' = [usage EXCEPT ![identifier] = IF ok THEN @ + 1 ELSE 0]
    /\ UNCHANGED <<masterKey, colonParams, scores, clock, ticks, req, pc, work,
                   resp, events, engineVars, gradeVars>>

\* incrementUsage's write settles: totalCalls is incremented, or the write
\* fails and is logged.
IncrementUsage(identifier, ok) ==
    /\ pendingUsage[identifier] > 0
    /\ pendingUsage' = [pendingUsage EXCEPT ![identifier] = @ - 1]
    /\ usage' = [usage EXCEPT ![identifier] = IF ok THEN @ + 1 ELSE @]
    /\ UNCHANGED <<masterKey, colonParams, scores, clock, ticks, req, pc, work,
                   resp, events, engineVars, gradeVars>>

\* One segment of a route key against one segment of the path.  The key is
\* compiled to a case-insensitive regular expression anchored at both ends.
SegmentMatches(keySeg, pathSeg) ==
    \/ ToLowerCase(keySeg) = ToLowerCase(pathSeg)
    \/ colonParams /\ Len(keySeg) > 1 /\ keySeg[1] = ":" /\ Len(pathSeg) > 0

KeyMatches(key, path) ==
    /\ key.lead = path.lead
    /\ Len(key.segs) = Len(path.segs)
    /\ \A i \in DOMAIN key.segs : SegmentMatches(key.segs[i], path.segs[i])

\* findMatchingRoute(routePatterns, req.path)
FindMatchingRoute(path) == {rt \in RouteTable : KeyMatches(rt.key, path)}

PaymentRequirements(rt) ==
    [payTo |-> RECIPIENT_WALLET, price |-> rt.price, network |-> rt.network]

\* x402Middleware(req, res, next): no matching route, next(); a verified
\* payment, next(); otherwise the 402 challenge.
X402Middleware(r) ==
    /\ pc[r] = "x402"
    /\ LET matching == FindMatchingRoute(req[r].path)
       IN IF matching = {}
          THEN /\ pc' = [pc EXCEPT ![r] = "router"]
               /\ Note(r, {"next"})
               /\ UNCHANGED resp
          ELSE IF req[r].payment = "valid"
          THEN /\ pc' = [pc EXCEPT ![r] = "router"]
               /\ Note(r, {"paymentVerified", "next"})
               /\ UNCHANGED resp
          ELSE /\ Respond(r, 402,
                     [accepts |-> {PaymentRequirements(rt) : rt \in matching}])
               /\ Note(r, {"challenge"})
    /\ UNCHANGED <<masterKey, colonParams, scores, usage, pendingUsage, clock,
                   ticks, req, work, engineVars, gradeVars>>

(***************************************************************************)
(* index.js and api/score.js: routing, the score handler, the cache         *)
(***************************************************************************)
\* Express matches route paths without regard to letter case.
RouteOf(path) ==
    LET segs == PathToLowerCase(path).segs
    IN IF segs \in {<<>>, <<WApi>>} THEN "root"
       ELSE IF segs \in {<<WHealth>>, <<WApi, WHealth>>} THEN "health"
       ELSE IF segs \in {<<WDocs>>, <<WApi, WDocs>>} THEN "docs"
       ELSE IF \/ Len(segs) = 2 /\ segs[1] = WScore
               \/ Len(segs) = 3 /\ segs[1] = WApi /\ segs[2] = WScore
       THEN "score"
       ELSE "notfound"

\* req.params.address
AddressParam(path) == path.segs[Len(path.segs)]

MutNormalizeKeepsCase(address) == address

\* const normalizedAddress = address.toLowerCase()
Normalize(address) == ToLowerCase(address)

\* The handler up to its first await: the static routes, the 404 handler,
\* and the score route's address check.
Router(r) ==
    /\ pc[r] = "router"
    /\ LET route == RouteOf(req[r].path)
           address == AddressParam(req[r].path)
       IN IF route = "notfound"
          THEN Respond(r, 404, [error |-> "Not Found"]) /\ UNCHANGED work
          ELSE IF route # "score"
          THEN Respond(r, 200, [service |-> route]) /\ UNCHANGED work
          ELSE IF ~IsValidAddress(address)
          THEN Respond(r, 400, [error |-> "Invalid Address"]) /\ UNCHANGED work
          ELSE /\ work' = [work EXCEPT ![r].normalizedAddress = Normalize(address)]
               /\ pc' = [pc EXCEPT ![r] = "cacheRead"]
               /\ UNCHANGED resp
    /\ UNCHANGED <<masterKey, colonParams, scores, usage, pendingUsage, clock,
                   ticks, req, events, engineVars, gradeVars>>

MutGetCachedScoreInclusive(address, readOk) ==
    IF readOk /\ address \in DOMAIN scores
              /\ clock - scores[address].cachedAt <= CACHE_TTL
    THEN <<scores[address]>>
    ELSE Null

\* getCachedScore(address); readOk: whether the Firestore read succeeds.
getCachedScore(address, readOk) ==
    IF readOk /\ address \in DOMAIN scores
              /\ clock - scores[address].cachedAt < CACHE_TTL
    THEN <<scores[address]>>
    ELSE Null

\* The response without the factor details.
BasicView(address, record, cached) ==
    [address |-> address, score |-> record.score, grade |-> record.grade,
     label |-> record.label, cached |-> cached, metadata |-> record.metadata]

MutCacheReadRefreshesEntry(r, readOk) ==
    /\ pc[r] = "cacheRead"
    /\ LET address == work[r].normalizedAddress
           cached == getCachedScore(address, readOk)
           age == IF address \in DOMAIN scores
                  THEN clock - scores[address].cachedAt ELSE -1
           seen == [work[r] EXCEPT !.readOk = readOk, !.seenAge = age,
                                   !.hit = (cached # Null)]
       IN /\ work' = [work EXCEPT ![r] = seen]
          /\ IF cached # Null
             THEN /\ Respond(r, 200, IF req[r].full THEN cached[1]
                                     ELSE BasicView(address, cached[1], TRUE))
                  /\ scores' = [scores EXCEPT ![address].cachedAt = clock]
             ELSE /\ pc' = [pc EXCEPT ![r] = "fetch"]
                  /\ UNCHANGED <<resp, scores>>
    /\ Note(r, {"cacheRead"})
    /\ UNCHANGED <<masterKey, colonParams, usage, pendingUsage, clock,
                   ticks, req, engineVars, gradeVars>>

\* await getCachedScore(normalizedAddress) and the cache-hit branch.
CacheRead(r, readOk) ==
    /\ pc[r] = "cacheRead"
    /\ LET address == work[r].normalizedAddress
           cached == getCachedScore(address, readOk)
           age == IF address \in DOMAIN scores
                  THEN clock - scores[address].cachedAt ELSE -1
           seen == [work[r] EXCEPT !.readOk = readOk, !.seenAge = age,
                                   !.hit = (cached # Null)]
       IN /\ work' = [work EXCEPT ![r] = seen]
          /\ IF cached # Null
             THEN Respond(r, 200, IF req[r].full THEN cached[1]
                                  ELSE BasicView(address, cached[1], TRUE))
             ELSE pc' = [pc EXCEPT ![r] = "fetch"] /\ UNCHANGED resp
    /\ Note(r, {"cacheRead"})
    /\ UNCHANGED <<masterKey, colonParams, scores, usage, pendingUsage, clock,
                   ticks, req, engineVars, gradeVars>>

\* await Promise.all([...]) and calculateTrustScore; the catch block when a
\* fetch throws.
Fetch(r, oTx, oTransfers, oBalance) ==
    /\ pc[r] = "fetch"
    /\ LET address == work[r].normalizedAddress
           \* which of the three retrievals did not deliver data, and how
           failed == {<<"transactions", oTx>>, <<"tokenTransfers", oTransfers>>,
                      <<"balance", oBalance>>}
                     \ {<<"transactions", "ok">>, <<"tokenTransfers", "ok">>,
                         <<"balance", "ok">>}
       IN IF "throw" \in {oTx, oTransfers, oBalance}
          THEN /\ Respond(r, 500, [error |-> "Scoring Engine Error",
                                   address |-> address])
               /\ work' = [work EXCEPT ![r].failed = failed]
          ELSE LET res == calculateTrustScore(
                              getTransactionHistory(address, oTx),
                              getTokenTransfers(address, oTransfers),
                              getBalance(address, oBalance), clock)
                   scoreResult == Merge(Merge([address |-> address], res),
                                        [cached |-> FALSE])
               IN /\ work' = [work EXCEPT ![r].failed = failed,
                                          ![r].scoreResult = <<scoreResult>>]
                  /\ pc' = [pc EXCEPT ![r] = "cacheWrite"]
                  /\ UNCHANGED resp
    /\ Note(r, {"fetch"})
    /\ UNCHANGED <<masterKey, colonParams, scores, usage, pendingUsage, clock,
                   ticks, req, engineVars, gradeVars>>

MutCacheScoreSharedKey(address, scoreResult, writeOk) ==
    IF writeOk
    THEN [k \in DOMAIN scores \cup {AddrA} |->
            IF k = AddrA THEN Merge(scoreResult, [cachedAt |-> clock])
                         ELSE scores[k]]
    ELSE scores

\* cacheScore(address, scoreResult); writeOk: whether the Firestore write
\* succeeds.
cacheScore(address, scoreResult, writeOk) ==
    IF writeOk
    THEN [k \in DOMAIN scores \cup {address} |->
            IF k = address THEN Merge(scoreResult, [cachedAt |-> clock])
                           ELSE scores[k]]
    ELSE scores

MutCacheWriteFailsRequest(r, writeOk) ==
    /\ pc[r] = "cacheWrite"
    /\ LET address == work[r].normalizedAddress
           scoreResult == work[r].scoreResult[1]
       IN /\ scores' = cacheScore(address, scoreResult, writeOk)
          /\ IF writeOk
             THEN Respond(r, 200, IF req[r].full THEN scoreResult
                                  ELSE BasicView(address, scoreResult, FALSE))
             ELSE Respond(r, 500, [error |-> "Scoring Engine Error",
                                   address |-> address])
    /\ Note(r, IF writeOk THEN {"cacheWrite", "cacheWritten"} ELSE {"cacheWrite"})
    /\ UNCHANGED <<masterKey, colonParams, usage, pendingUsage, clock, ticks,
                   req, work, engineVars, gradeVars>>

\* await cacheScore(...) and the response of the miss branch.
CacheWrite(r, writeOk) ==
    /\ pc[r] = "cacheWrite"
    /\ LET address == work[r].normalizedAddress
           scoreResult == work[r].scoreResult[1]
       IN /\ scores' = cacheScore(address, scoreResult, writeOk)
          /\ Respond(r, 200, IF req[r].full THEN scoreResult
                             ELSE BasicView(address, scoreResult, FALSE))
    /\ Note(r, IF writeOk THEN {"cacheWrite", "cacheWritten"} ELSE {"cacheWrite"})
    /\ UNCHANGED <<masterKey, colonParams, usage, pendingUsage, clock, ticks,
                   req, work, engineVars, gradeVars>>

\* Time passes: by a second less than the TTL, then by a second, and so on.
Tick ==
    /\ ticks < MaxTicks
    /\ clock' = clock + (IF ticks % 2 = 0 THEN CACHE_TTL - 1 ELSE 1)
    /\ ticks' = ticks + 1
    /\ UNCHANGED <<masterKey, colonParams, scores, usage, pendingUsage, req, pc,
                   work, resp, events, engineVars, gradeVars>>

AllReplies == FetchOutcomes \X FetchOutcomes \X FetchOutcomes

\* The I/O failures so far: failed cache reads, retrievals that did not
\* deliver, failed cache writes.
FailuresOf(r) ==
    (IF "cacheRead" \in events[r] /\ ~work[r].readOk THEN 1 ELSE 0)
    + Cardinality(work[r].failed)
    + (IF "cacheWrite" \in events[r] /\ "cacheWritten" \notin events[r]
       THEN 1 ELSE 0)

RECURSIVE SumOver(_, _)
SumOver(S, f) ==
    IF S = {} THEN 0
    ELSE LET x == CHOOSE y \in S : TRUE IN f[x] + SumOver(S \ {x}, f)

Failures == SumOver(DOMAIN pc, [r \in DOMAIN pc |-> FailuresOf(r)])

\* The handler's steps of request r, with at most `limit` I/O failures in
\* the whole run.
Handle(r, limit) ==
    \/ Router(r)
    \/ \E readOk \in BOOLEAN :
          /\ pc[r] = "cacheRead"
          /\ readOk \/ Failures < limit
          /\ CacheRead(r, readOk)
    \/ \E o \in AllReplies :
          /\ pc[r] = "fetch"
          /\ Failures + Cardinality({i \in 1..3 : o[i] # "ok"}) <= limit
          /\ Fetch(r, o[1], o[2], o[3])
    \/ \E writeOk \in BOOLEAN :
          /\ pc[r] = "cacheWrite"
          /\ writeOk \/ Failures < limit
          /\ CacheWrite(r, writeOk)

(***************************************************************************)
(* Spec: concurrent score requests, with or without a payment proof, and    *)
(* the clock                                                                *)
(***************************************************************************)
SvcRequests ==
    { [path |-> Path(<<WApi, WScore, a>>), apiKey |-> "", payment |-> pay,
       full |-> f] :
        a \in ValidAddresses, pay \in {"none", "valid"}, f \in BOOLEAN }

Init == SvcInit(1..NumReq, {"mk"}, {TRUE}) /\ EngineInit0 /\ GradeInit0

Next ==
    \/ \E r \in 1..NumReq, request \in SvcRequests : AuthMiddleware(r, request)
    \/ \E r \in 1..NumReq : X402Middleware(r)
    \/ \E r \in 1..NumReq : Handle(r, MaxFailures)
    \/ Tick

Spec == Init /\ [][Next]_vars

(***************************************************************************)
(* GateSpec: one request of any shape, under every configuration            *)
(***************************************************************************)
GatePaths ==
    { Path(prefix \o <<a>>) :
        prefix \in {<<WScore>>, <<WApi, WScore>>, <<WApiUpper, WScoreMixed>>},
        a \in Addresses }
    \cup { Path(<<WHealth>>), Path(<<WApi, WHealthUpper>>), Path(<<WOther>>) }

GateRequests ==
    { [path |-> p, apiKey |-> k, payment |-> pay, full |-> f] :
        p \in GatePaths, k \in ApiKeyHeaders,
        pay \in {"none", "valid", "invalid"}, f \in BOOLEAN }

GateInit == SvcInit({1}, {"", "mk"}, BOOLEAN) /\ EngineInit0 /\ GradeInit0

GateNext ==
    \/ \E request \in GateRequests : AuthMiddleware(1, request)
    \/ \E storeOk \in BOOLEAN : ValidateApiKey(1, storeOk)
    \/ \E k \in KeyIds, ok \in BOOLEAN : IncrementUsage(k, ok)
    \/ X402Middleware(1)
    \* a read, three retrievals and a write may all fail
    \/ Handle(1, 1 + 3 + 1)

GateSpec == GateInit /\ [][GateNext]_vars

(***************************************************************************)
(* UsageSpec: concurrent requests that carry an x-api-key, and the usage     *)
(* increments they start                                                    *)
(***************************************************************************)
UsageRequests ==
    { [path |-> Path(<<WApi, WScore, AddrA>>), apiKey |-> k, payment |-> "none",
       full |-> FALSE] : k \in {"mk", "k1", "k2"} }

UsageInit == SvcInit(1..NumReq, {"mk"}, {TRUE}) /\ EngineInit0 /\ GradeInit0

UsageNext ==
    \/ \E r \in 1..NumReq, request \in UsageRequests : AuthMiddleware(r, request)
    \/ \E r \in 1..NumReq, storeOk \in BOOLEAN : ValidateApiKey(r, storeOk)
    \/ \E k \in KeyIds, ok \in BOOLEAN : IncrementUsage(k, ok)
    \/ \E r \in 1..NumReq : X402Middleware(r)
    \* the cache and the data port work
    \/ \E r \in 1..NumReq : Handle(r, 0)

UsageSpec == UsageInit /\ [][UsageNext]_vars

(***************************************************************************)
(* EngineSpec: calculateTrustScore called on inputs built up record by      *)
(* record, or on a long generated history                                   *)
(***************************************************************************)
AddTransaction(tx) ==
    /\ earlier = <<>>
    /\ Len(transactions) < MaxTx
    /\ transactions' = Append(transactions, tx)
    /\ result' = <<>>
    /\ UNCHANGED <<tokenTransfers, balanceWei, earlier, gradeVars, svcVars>>

AddTokenTransfer(tt) ==
    /\ earlier = <<>>
    /\ Len(tokenTransfers) < MaxTransfers
    /\ Len(tokenTransfers) < 500
    /\ tokenTransfers' = Append(tokenTransfers, tt)
    /\ result' = <<>>
    /\ UNCHANGED <<transactions, balanceWei, earlier, gradeVars, svcVars>>

SetBalance(b) ==
    /\ earlier = <<>>
    /\ transactions = <<>> /\ tokenTransfers = <<>>
    /\ balanceWei # b
    /\ balanceWei' = b
    /\ result' = <<>>
    /\ UNCHANGED <<transactions, tokenTransfers, earlier, gradeVars, svcVars>>

LoadHistory(k, step, failEvery, parties, m) ==
    /\ earlier = <<>>
    /\ transactions = <<>> /\ tokenTransfers = <<>>
    /\ transactions' = BulkTxs(k, step, failEvery, parties)
    /\ tokenTransfers' = BulkTransfers(m)
    /\ result' = <<>>
    /\ UNCHANGED <<balanceWei, earlier, gradeVars, svcVars>>

LoadCounterparties(n) ==
    /\ earlier = <<>>
    /\ transactions = <<>> /\ tokenTransfers = <<>>
    /\ transactions' = PartyTxs(n)
    /\ result' = <<>>
    /\ UNCHANGED <<tokenTransfers, balanceWei, earlier, gradeVars, svcVars>>

Calculate ==
    /\ result = <<>>
    /\ result' = <<calculateTrustScore(transactions, tokenTransfers,
                                        balanceWei, EngineNow)>>
    /\ UNCHANGED <<transactions, tokenTransfers, balanceWei, earlier, gradeVars,
                   svcVars>>

\* How much later the engine is called a second time on the same arguments:
\* at once, a second later, four days later.
EngineDelays == {0, 1, 4 * DAY}

\* (on the histories built record by record)
CalculateAgain(delay) ==
    /\ result # <<>> /\ earlier = <<>>
    /\ Len(transactions) <= MaxTx
    /\ clock' = clock + delay
    /\ earlier' = result
    /\ result' = <<calculateTrustScore(transactions, tokenTransfers,
                                        balanceWei, clock')>>
    /\ UNCHANGED <<transactions, tokenTransfers, balanceWei, gradeVars,
                   masterKey, colonParams, scores, usage, pendingUsage, ticks,
                   req, pc, work, resp, events>>

EngineInit == EngineInit0 /\ GradeInit0 /\ SvcInit0

EngineNext ==
    \/ \E tx \in TxPool : AddTransaction(tx)
    \/ \E tt \in TransferPool : AddTokenTransfer(tt)
    \/ \E b \in BalancePool : SetBalance(b)
    \/ \E k \in BulkSizes, step \in BulkSteps, f \in BulkFailEvery,
          p \in BulkParties, m \in BulkTransferSizes :
            LoadHistory(k, step, f, p, m)
    \/ \E n \in PartyCounts : LoadCounterparties(n)
    \/ Calculate
    \/ \E delay \in EngineDelays : CalculateAgain(delay)

EngineSpec == EngineInit /\ [][EngineNext]_vars

(***************************************************************************)
(* GradeSpec: getGrade called on every score of the scale                   *)
(***************************************************************************)
MaxScore == 100

GradeProbe(s) ==
    /\ gradeIn' = s
    /\ gradeOut' = <<getGrade(s)>>
    /\ UNCHANGED <<engineVars, svcVars>>

GradeInit == EngineInit0 /\ GradeInit0 /\ SvcInit0

GradeNext == \E s \in 0..MaxScore : GradeProbe(s)

GradeSpec == GradeInit /\ [][GradeNext]_vars

(***************************************************************************)
(* Claims about the gate (GateSpec)                                         *)
(***************************************************************************)
Arrived(r) == req[r] # NoRequest
IsScoreRequest(r) == Arrived(r) /\ RouteOf(req[r].path) = "score"
Answered(r) == resp[r] # Null
Status(r) == resp[r][1].status

\* A credential as the documentation defines it: the configured master key,
\* or a key whose record exists and is active.
IsValidCredential(apiKey) ==
    \/ masterKey # "" /\ apiKey = masterKey
    \/ apiKey \in DOMAIN ApiKeyDocs /\ ApiKeyDocs[apiKey].active

\* C1 (as claimed): a request to /score/:address or /api/score/:address, in
\* any letter case, with no x-api-key header or an unknown or inactive key,
\* and with no payment proof, never reaches next() and is answered, if at
\* all, with the 402 payment challenge.
C1_NoCredentialNoPaymentIsChallenged ==
    \A r \in DOMAIN pc :
        (/\ IsScoreRequest(r)
         /\ req[r].apiKey = "" \/ ~IsValidCredential(req[r].apiKey)
         /\ req[r].payment = "none")
        => /\ "next" \notin events[r]
           /\ Answered(r) => Status(r) = 402

\* C2 (as claimed): a request to a priced route with a valid credential is
\* never handed to the payment middleware and never challenged, under every
\* configuration.
C2_ValidCredentialNeverChallenged ==
    \A r \in DOMAIN pc :
        (IsScoreRequest(r) /\ IsValidCredential(req[r].apiKey))
        => /\ pc[r] # "x402"
           /\ "challenge" \notin events[r]
           /\ "paymentVerified" \notin events[r]

\* C2 (amended): when the master key is configured and the lookup of a
\* per-issued key's record does not fail, a request to a priced route with a
\* valid credential is admitted (next() is called with req.apiKeyData set)
\* and is never handed to the payment middleware, whatever the address.
C2_ValidCredentialAdmittedWhenConfigured ==
    \A r \in DOMAIN pc :
        (/\ IsScoreRequest(r) /\ IsValidCredential(req[r].apiKey)
         /\ masterKey # ""
         /\ "storeLookupFailed" \notin events[r]
         /\ pc[r] # "validating")
        => /\ pc[r] # "x402"
           /\ "next" \in events[r]
           /\ work[r].apiKeyData # Null
           /\ "challenge" \notin events[r]
           /\ "paymentVerified" \notin events[r]
           /\ Answered(r) => Status(r) # 402

\* C2's case: an active per-issued key, looked up in the store, on a score
\* request for an address with no history and no balance, answered 200
\* without a payment proof.
C2_Witness ==
    /\ masterKey # ""
    /\ IsScoreRequest(1)
    /\ req[1].apiKey = "k1" /\ req[1].payment = "none"
    /\ AddressParam(req[1].path) = AddrA
    /\ "storeLookup" \in events[1] /\ "storeLookupFailed" \notin events[1]
    /\ work[1].failed = {}
    /\ Answered(1) /\ Status(1) = 200 /\ resp[1][1].body.score = 0

HandlerIO == {"cacheRead", "fetch", "cacheWrite"}
GateProcessing == {"storeLookup", "usageIncrement", "challenge"}

\* 0x followed by exactly 40 hex digits, as the documentation words it.
HasAddressShape(a) ==
    /\ Len(a) = 42
    /\ SubSeq(a, 1, 2) = <<"0", "x">>
    /\ \A i \in 3..42 : a[i] \in HexChars

IsMalformedRequest(r) ==
    IsScoreRequest(r) /\ ~HasAddressShape(AddressParam(req[r].path))

\* C4 (as claimed): a score request whose address is not 0x followed by
\* exactly 40 hex digits is answered 400 before any other processing: no
\* credential-store lookup, no usage increment, no payment challenge, no
\* cache read, no fetch, no cache write.
C4_MalformedRejectedBeforeAnything ==
    \A r \in DOMAIN pc :
        IsMalformedRequest(r)
        => /\ events[r] \cap (GateProcessing \cup HandlerIO) = {}
           /\ Answered(r) => Status(r) = 400

\* C4 (amended): a score request whose address is not 0x followed by exactly
\* 40 hex digits never causes a cache read, a fetch or a cache write, and
\* once it has passed the gate (next() was called) the handler answers it
\* with 400 Invalid Address; the gate itself runs before the address check.
C4_MalformedRejectedBeforeHandlerIO ==
    \A r \in DOMAIN pc :
        IsMalformedRequest(r)
        => /\ events[r] \cap HandlerIO = {}
           /\ work[r].normalizedAddress = <<>>
           /\ pc[r] \in {"validating", "x402", "router", "done"}
           /\ Answered(r) =>
                 IF "next" \in events[r]
                 THEN Status(r) = 400 /\ resp[r][1].body.error = "Invalid Address"
                 ELSE Status(r) = 402

\* C4's case: an address one hex digit short, admitted by the gate with a
\* valid key and answered 400.
C4_Witness ==
    /\ IsMalformedRequest(1)
    /\ AddressParam(req[1].path) = AddrShort
    /\ "next" \in events[1] /\ "usageIncrement" \in events[1]
    /\ Answered(1) /\ Status(1) = 400

\* C5 (as claimed): when the retrieval of any of the three data items fails,
\* by a thrown error or by an error payload, the request ends with 500 and
\* writes nothing to the cache.
C5_FailedRetrievalGives500 ==
    \A r \in DOMAIN pc :
        work[r].failed # {}
        => /\ pc[r] = "done"
           /\ Status(r) = 500
           /\ "cacheWrite" \notin events[r]
           /\ scores = <<>>

\* The documented prices (README "Pricing", the docs route).
DocumentedPrice(full) == IF full THEN "$0.05" ELSE "$0.01"

\* C13 (as claimed): the payment challenge of a score request names the
\* configured recipient wallet, the base network and the price of what was
\* asked for, $0.01 without full=true and $0.05 with it; and a full report is
\* not handed out against a payment verified for the basic price.
C13_ChallengePricedByReportType ==
    \A r \in DOMAIN pc :
        IsScoreRequest(r) =>
            /\ "challenge" \in events[r] =>
                  /\ Answered(r) /\ Status(r) = 402
                  /\ resp[r][1].body.accepts # {}
                  /\ \A a \in resp[r][1].body.accepts :
                        /\ a.payTo = RECIPIENT_WALLET
                        /\ a.network = "base"
                        /\ a.price = DocumentedPrice(req[r].full)
            /\ ("paymentVerified" \in events[r] /\ req[r].full
                /\ Answered(r) /\ Status(r) = 200) =>
                  \A rt \in FindMatchingRoute(req[r].path) :
                      rt.price = DocumentedPrice(TRUE)

(***************************************************************************)
(* Claims about usage accounting (UsageSpec)                                *)
(***************************************************************************)
AdmittedByKey(r) == work[r].apiKeyData # Null

\* Every request admitted by its key has started an increment, has been
\* handed to the handler and gets no 402 and no error; the increments settled
\* or pending for a key are no more than the requests admitted with it.
C15_AdmittedRequestsProceed ==
    /\ \A r \in DOMAIN pc :
          AdmittedByKey(r) =>
              /\ {"usageIncrement", "next"} \subseteq events[r]
              /\ "challenge" \notin events[r]
              /\ Answered(r) => Status(r) \in {200, 500}
              /\ (Answered(r) /\ work[r].failed = {}) => Status(r) = 200
    /\ \A k \in KeyIds :
          usage[k] + pendingUsage[k]
              <= Cardinality({r \in DOMAIN pc : AdmittedByKey(r) /\ req[r].apiKey = k})

\* In one step: a request newly admitted with key k starts exactly one
\* increment for k and none for another key, no other step starts one,
\* totalCalls of k stays or goes up by one, and an increment that settles,
\* either way, changes nothing about any request.
C15_OneIncrementPerAdmission ==
    \A k \in KeyIds :
      /\ pendingUsage'[k] < pendingUsage[k] =>
             UNCHANGED <<req, pc, work, resp, events, scores>>
      /\
        LET newly == {r \in DOMAIN pc : /\ ~AdmittedByKey(r)
                                        /\ work'[r].apiKeyData # Null
                                        /\ req[r].apiKey = k}
        IN /\ newly # {} =>
                 /\ Cardinality(newly) = 1
                 /\ pendingUsage'[k] = pendingUsage[k] + 1
                 /\ usage'[k] = usage[k]
           /\ newly = {} => pendingUsage'[k] <= pendingUsage[k]
           /\ usage'[k] \in {usage[k], usage[k] + 1}

\* C15: every request admitted by credential starts exactly one usage
\* increment for that credential and proceeds to the handler whether the
\* increment succeeds, fails or is pending; a failed increment causes no
\* error response; a credential's totalCalls never decreases.
C15_UsageAccounting ==
    []C15_AdmittedRequestsProceed /\ [][C15_OneIncrementPerAdmission]_vars

\* C15's case: two requests admitted with the same key, one increment failed
\* and one still pending, both requests answered 200.
C15_Witness ==
    \E r \in DOMAIN pc, q \in DOMAIN pc :
        /\ r # q
        /\ AdmittedByKey(r) /\ AdmittedByKey(q)
        /\ req[r].apiKey = "k1" /\ req[q].apiKey = "k1"
        /\ usage["k1"] = 0 /\ pendingUsage["k1"] = 1
        /\ Answered(r) /\ Status(r) = 200
        /\ Answered(q) /\ Status(q) = 200

(***************************************************************************)
(* Claims about the cache (Spec)                                            *)
(***************************************************************************)
HasRead(r) == "cacheRead" \in events[r]
IsCachedResponse(r) ==
    /\ Answered(r) /\ Status(r) = 200
    /\ "fetch" \notin events[r]

\* C3: a cache read returns the stored record only while now - cachedAt is
\* under 3600 seconds: at 3599 s (and below) a readable entry is returned and
\* served, at 3600 s or more, or with no entry, the read yields null, the
\* request goes on to fetch and no stored record is served.
C3_EntryServedOnlyWithinTtl ==
    \A r \in DOMAIN pc :
        HasRead(r) =>
            /\ work[r].hit <=> (work[r].readOk /\ work[r].seenAge \in 0..3599)
            /\ work[r].hit <=> IsCachedResponse(r)
            /\ ~work[r].hit => pc[r] \in {"fetch", "cacheWrite", "done"}
            /\ (~work[r].hit /\ Answered(r)) =>
                  /\ "fetch" \in events[r]
                  /\ Status(r) = 200 => resp[r][1].body.cached = FALSE

\* C3's case: after a write and a clock advance of 3599 s a read returns the
\* entry, which is served.
C3_Witness ==
    \E r \in DOMAIN pc :
        /\ HasRead(r) /\ work[r].hit /\ work[r].seenAge = 3599
        /\ IsCachedResponse(r)

PathAddress(r) == AddressParam(req[r].path)

\* Whatever the letter case of a valid address, the handler's cache key
\* and data-port argument are its lower-case form, every cache entry is
\* stored under a lower-case key with the same address field, every 200 or
\* 500 response carries the lower-case address; and a read of a request whose
\* address differs at most in case from that of an entry written less than
\* the TTL ago returns that entry.
C6_KeysAreLowerCase ==
    /\ \A r \in DOMAIN pc :
          /\ work[r].normalizedAddress # <<>> =>
                work[r].normalizedAddress = ToLowerCase(PathAddress(r))
          /\ (Answered(r) /\ Status(r) \in {200, 500}) =>
                resp[r][1].body.address = ToLowerCase(PathAddress(r))
    /\ \A k \in DOMAIN scores :
          k = ToLowerCase(k) /\ scores[k].address = k

C6_ReadHitsAcrossCase ==
    \A r \in DOMAIN pc, w \in DOMAIN pc :
        (/\ pc[r] = "cacheRead" /\ pc'[r] # "cacheRead" /\ work'[r].readOk
         /\ "cacheWritten" \in events[w]
         /\ ToLowerCase(PathAddress(w)) = ToLowerCase(PathAddress(r))
         /\ clock - EngineNow < CACHE_TTL)
        => /\ work'[r].hit
           /\ resp'[r] # Null /\ resp'[r][1].status = 200
           /\ resp'[r][1].body.address = ToLowerCase(PathAddress(r))
           /\ resp'[r][1].body.score = scores[ToLowerCase(PathAddress(r))].score

\* C6: the lower-case key, argument and address field hold in every state,
\* and every cache read of an address written under another casing within
\* the TTL is a hit.
C6_CaseInsensitiveCache == []C6_KeysAreLowerCase /\ [][C6_ReadHitsAcrossCase]_vars

\* C6's case: a record written by a request with the mixed-case address is
\* served, after time has passed, to a request with the lower-case one.
C6_Witness ==
    \E r \in DOMAIN pc, w \in DOMAIN pc :
        /\ Arrived(r) /\ Arrived(w)
        /\ PathAddress(w) = AddrD /\ PathAddress(r) = AddrDLower
        /\ "cacheWritten" \in events[w] /\ "cacheWrite" \notin events[r]
        /\ work[r].hit /\ work[r].seenAge = CACHE_TTL - 1
        /\ IsCachedResponse(r)
        /\ resp[r][1].body.address = AddrDLower

ReadFailed(r) == HasRead(r) /\ ~work[r].readOk
WriteFailed(r) == "cacheWrite" \in events[r] /\ "cacheWritten" \notin events[r]
FetchThrew(r) == \E f \in work[r].failed : f[2] = "throw"

\* C16: a cache read that throws is treated as a miss (the request goes on
\* to fetch and compute and is answered 200 with a fresh record); a cache
\* write that throws still lets the computed record be returned with 200;
\* a 500 comes only from a retrieval that threw, never from the cache.
C16_CacheFailuresNeverFailRequest ==
    \A r \in DOMAIN pc :
        /\ ReadFailed(r) =>
              /\ ~work[r].hit
              /\ pc[r] \in {"fetch", "cacheWrite", "done"}
              /\ Answered(r) => "fetch" \in events[r]
        /\ WriteFailed(r) =>
              /\ Answered(r) /\ Status(r) = 200
              /\ resp[r][1].body.score = work[r].scoreResult[1].score
              /\ resp[r][1].body.cached = FALSE
        /\ (Answered(r) /\ (ReadFailed(r) \/ WriteFailed(r)) /\ ~FetchThrew(r)) =>
              /\ Status(r) = 200
              /\ "cacheWrite" \in events[r]
        /\ (Answered(r) /\ HasRead(r)) => (Status(r) = 500 <=> FetchThrew(r))

\* C16's case: the read of an entry that is present and fresh fails, and the
\* request is answered 200 with a freshly computed record.
C16_Witness ==
    \E r \in DOMAIN pc :
        /\ ReadFailed(r) /\ work[r].seenAge \in 0..3599
        /\ {"fetch", "cacheWritten"} \subseteq events[r]
        /\ Answered(r) /\ Status(r) = 200
        /\ resp[r][1].body.cached = FALSE

\* C17 (as claimed): a 200 score response carries cached = true exactly when
\* it was served from the cache and cached = false exactly when it was
\* freshly computed, in the reduced and in the full view.
C17_CachedFlagTellsCacheHit ==
    \A r \in DOMAIN pc :
        (HasRead(r) /\ Answered(r) /\ Status(r) = 200) =>
            resp[r][1].body.cached = work[r].hit

\* The record a request for the address of its path computes from the
\* replies it got: the data of that address where a reply delivered, nothing
\* where it did not.
OutcomeOf(r, item) ==
    IF \E f \in work[r].failed : f[1] = item THEN "error" ELSE "ok"

RecordFor(r, analyzedAt) ==
    LET k == ToLowerCase(PathAddress(r))
    IN Merge(Merge([address |-> k],
                   calculateTrustScore(
                       getTransactionHistory(k, OutcomeOf(r, "transactions")),
                       getTokenTransfers(k, OutcomeOf(r, "tokenTransfers")),
                       getBalance(k, OutcomeOf(r, "balance")), analyzedAt)),
             [cached |-> FALSE])

Computed(r) == work[r].scoreResult # Null

\* In every state: a computed record carries the request's own lower-case
\* address and is the engine's record of that address's data; the entry under
\* key k has address k and is the computed record of a request for k that
\* wrote it; a request that missed and whose retrievals did not throw is
\* answered 200.
C18_EntriesBelongToTheirKey ==
    /\ \A r \in DOMAIN pc :
          /\ Computed(r) =>
                LET sr == work[r].scoreResult[1]
                    at == IF "analyzedAt" \in DOMAIN sr.metadata
                          THEN sr.metadata.analyzedAt ELSE 0
                IN /\ sr.address = ToLowerCase(PathAddress(r))
                   /\ sr = RecordFor(r, at)
          /\ (HasRead(r) /\ ~work[r].hit /\ Answered(r) /\ ~FetchThrew(r)) =>
                Status(r) = 200 /\ "cacheWrite" \in events[r]
    /\ \A k \in DOMAIN scores :
          /\ scores[k].address = k
          /\ \E r \in DOMAIN pc :
                /\ ToLowerCase(PathAddress(r)) = k
                /\ "cacheWritten" \in events[r]
                /\ scores[k] = Merge(work[r].scoreResult[1],
                                     [cachedAt |-> scores[k].cachedAt])

\* In one step: entries are never removed; an entry that appears or changes
\* is that of the key of the one request that completes its cache write in
\* this step, and holds that request's record.
C18_WritesOnlyOwnKey ==
    /\ DOMAIN scores \subseteq DOMAIN scores'
    /\ \A k \in DOMAIN scores' :
          (k \notin DOMAIN scores \/ scores'[k] # scores[k]) =>
              \E r \in DOMAIN pc :
                  /\ pc[r] = "cacheWrite" /\ pc'[r] = "done"
                  /\ ToLowerCase(PathAddress(r)) = k
                  /\ scores'[k] = Merge(work[r].scoreResult[1],
                                        [cachedAt |-> clock])

\* C18: under any interleaving of concurrent score requests the entry under
\* key k holds a record with address k computed from k's data, no request
\* writes another address's entry, and requests racing on a miss of the same
\* address are each answered 200, the entry left being one of their records.
C18_ConcurrentRequestsDoNotInterfere ==
    []C18_EntriesBelongToTheirKey /\ [][C18_WritesOnlyOwnKey]_vars

\* C18's case: two requests for one address, in different letter cases, both
\* read before either wrote, both computed, wrote and were answered 200.
C18_Witness ==
    \E r \in DOMAIN pc, q \in DOMAIN pc :
        /\ r # q /\ Arrived(r) /\ Arrived(q)
        /\ PathAddress(r) = AddrD /\ PathAddress(q) = AddrDLower
        /\ work[r].readOk /\ work[q].readOk
        /\ work[r].seenAge = -1 /\ work[q].seenAge = -1
        /\ "cacheWritten" \in events[r] /\ "cacheWritten" \in events[q]
        /\ Answered(r) /\ Status(r) = 200
        /\ Answered(q) /\ Status(q) = 200
        /\ AddrDLower \in DOMAIN scores

\* In every state: a request that hit the cache has fetched nothing,
\* computed nothing and written nothing, and is answered 200; no entry is
\* dated in the future.
C19_HitDoesNoWork ==
    /\ \A r \in DOMAIN pc :
          work[r].hit =>
              /\ events[r] \cap {"fetch", "cacheWrite", "cacheWritten"} = {}
              /\ ~Computed(r) /\ work[r].failed = {}
              /\ Answered(r) /\ Status(r) = 200
    /\ \A k \in DOMAIN scores : scores[k].cachedAt <= clock

\* In one step: a cache read, hit or miss, leaves every entry as it is,
\* cachedAt included; an entry appears or changes only in the cache write of
\* a request that observed a miss.
C19_OnlyMissesWrite ==
    /\ (\E r \in DOMAIN pc : pc[r] = "cacheRead" /\ pc'[r] # "cacheRead") =>
           scores' = scores
    /\ scores' # scores =>
           \E r \in DOMAIN pc :
               /\ pc[r] = "cacheWrite" /\ pc'[r] = "done"
               /\ HasRead(r) /\ ~work[r].hit
               /\ "fetch" \in events[r]

\* C19: on a cache hit the handler fetches nothing, does not call the engine
\* and leaves the entry and its cachedAt unchanged, so hits never extend an
\* entry's lifetime; an entry is written only by a request that saw a miss.
C19_HitsLeaveCacheUnchanged ==
    []C19_HitDoesNoWork /\ [][C19_OnlyMissesWrite]_vars

\* C19's case: an entry served as a hit 3599 s after it was written and
\* still dated as written; the other request is the one that wrote it.
C19_Witness ==
    \E r \in DOMAIN pc, w \in DOMAIN pc :
        /\ r # w
        /\ work[r].hit /\ work[r].seenAge = 3599
        /\ "cacheWritten" \in events[w]
        /\ work[r].normalizedAddress \in DOMAIN scores
        /\ clock - scores[work[r].normalizedAddress].cachedAt >= 3599
        /\ Answered(r)

(***************************************************************************)
(* Claims about the engine                                                  *)
(***************************************************************************)
EmptyInput == Len(transactions) + Len(tokenTransfers) = 0

FactorNames == {"age", "volume", "successRate", "diversity", "consistency"}

\* C11: with no transactions and no token transfers calculateTrustScore
\* returns score 0, grade C, five factor scores of 0, counts of 0 and null
\* firstSeen/lastSeen, and the same record for any balance and at any time.
C11_EmptyInputGivesZeroRecord ==
    (result # <<>> /\ EmptyInput) =>
        LET r == result[1]
        IN /\ r.score = 0 /\ r.grade = "C"
           /\ \A f \in FactorNames : r.factors[f].score = 0
           /\ r.metadata.totalTransactions = 0
           /\ r.metadata.totalTokenTransfers = 0
           /\ r.metadata.firstSeen = Null /\ r.metadata.lastSeen = Null
           /\ \A bal \in BalancePool, now \in {0, EngineNow, clock + WEEK} :
                 calculateTrustScore(transactions, tokenTransfers, bal, now) = r
           /\ earlier # <<>> => earlier = result

\* C11's case: the engine called on two empty lists with a non-zero balance.
C11_Witness ==
    /\ result # <<>> /\ EmptyInput
    /\ balanceWei = 1500
    /\ result[1].score = 0

\* A ScoreRecord without its analyzedAt field.
WithoutAnalyzedAt(r) ==
    [r EXCEPT !.metadata =
        [k \in DOMAIN r.metadata \ {"analyzedAt"} |-> r.metadata[k]]]

\* C12 (as claimed): two calls with the same arguments return the same
\* record apart from analyzedAt, whenever they are made.
C12_SameRecordAtAnyTime ==
    (result # <<>> /\ earlier # <<>>) =>
        WithoutAnalyzedAt(earlier[1]) = WithoutAnalyzedAt(result[1])

\* C12 (amended): two calls with the same arguments return records that agree
\* in the volume, successRate, diversity and consistency factors and in all
\* metadata but analyzedAt; the age factor is that of the wallet's age at the
\* time of each call (now - firstSeen, in whole days in the detail) and does
\* not go down from the earlier call to the later; score, grade and label
\* follow the factors, so the two records are the same apart from analyzedAt
\* when the age factor is the same, and the same when made at the same time.
C12_SameRecordApartFromAge ==
    (result # <<>> /\ earlier # <<>>) =>
        LET a == earlier[1]
            b == result[1]
            ScoreOf(r) ==
                RoundDiv(20 * r.factors.age.score + 20 * r.factors.volume.score
                         + 25 * r.factors.successRate.score
                         + 15 * r.factors.diversity.score
                         + 20 * r.factors.consistency.score, 100)
            AgeOk(r) ==
                r.metadata.firstSeen # Null =>
                    r.factors.age.detail =
                        <<"Wallet age",
                          (r.metadata.analyzedAt - r.metadata.firstSeen[1]) \div DAY>>
        IN IF EmptyInput THEN a = b
           ELSE /\ \A f \in FactorNames \ {"age"} : a.factors[f] = b.factors[f]
                /\ WithoutAnalyzedAt(a).metadata = WithoutAnalyzedAt(b).metadata
                /\ a.metadata.analyzedAt <= b.metadata.analyzedAt
                /\ a.factors.age.score <= b.factors.age.score
                /\ AgeOk(a) /\ AgeOk(b)
                /\ a.score = ScoreOf(a) /\ b.score = ScoreOf(b)
                /\ a.factors.age = b.factors.age =>
                      WithoutAnalyzedAt(a) = WithoutAnalyzedAt(b)
                /\ a.metadata.analyzedAt = b.metadata.analyzedAt => a = b

\* C12's case: the same arguments four days apart, the first transaction
\* three days old at the first call: the age factor goes from 10 to 30.
C12_Witness ==
    /\ result # <<>> /\ earlier # <<>> /\ ~EmptyInput
    /\ result[1].metadata.analyzedAt - earlier[1].metadata.analyzedAt = 4 * DAY
    /\ earlier[1].factors.age.score = 10
    /\ result[1].factors.age.score = 30
    /\ earlier[1].score < result[1].score

\* C14: the diversity count is the number of distinct lower-cased from/to
\* addresses of the transactions and token transfers taken together, each
\* address counted once however often, on whichever side, in whichever list
\* and letter case it appears; the score is 100/85/70/55/35/15 for a count
\* of >=100 / >=50 / >=20 / >=10 / >=5 / less.
C14_DiversityCountsDistinctAddresses ==
    (result # <<>> /\ ~EmptyInput) =>
        LET ends == ({transactions[i].from : i \in DOMAIN transactions}
                     \cup {transactions[i].to : i \in DOMAIN transactions}
                     \cup {tokenTransfers[i].from : i \in DOMAIN tokenTransfers}
                     \cup {tokenTransfers[i].to : i \in DOMAIN tokenTransfers})
                    \ {<<>>}
            count == Cardinality({ToLowerCase(a) : a \in ends})
            d == result[1].factors.diversity
        IN /\ d.detail = <<"unique counterparties", count>>
           /\ count \in 0..4 => d.score = 15
           /\ count \in 5..9 => d.score = 35
           /\ count \in 10..19 => d.score = 55
           /\ count \in 20..49 => d.score = 70
           /\ count \in 50..99 => d.score = 85
           /\ count >= 100 => d.score = 100

\* C14's case: exactly 100 distinct addresses, 98 of them appearing in both
\* letter cases and on both sides, the wallet also in a token transfer.
C14_Witness ==
    /\ result # <<>>
    /\ Len(transactions) = 2 * 98 /\ Len(tokenTransfers) > 0
    /\ result[1].factors.diversity.detail = <<"unique counterparties", 100>>
    /\ result[1].factors.diversity.score = 100

\* C7 (as claimed): every ScoreRecord calculateTrustScore returns, the one for
\* an empty history included, carries the grade letter and the label getGrade
\* assigns to its score; a score under 20 carries C, "No History / Dangerous".
C7_GradeAndLabelAreGetGradeOfScore ==
    result # <<>> =>
        LET r == result[1]
        IN /\ r.grade = getGrade(r.score).letter
           /\ r.label = getGrade(r.score).label
           /\ (r.score \in 0..19 =>
                  r.grade = "C" /\ r.label = "No History / Dangerous")

\* C8 (as claimed): for at least 2 transactions spanning at least a day, the
\* number of distinct active weeks never exceeds totalWeeks, so the activity
\* rate is at most 100%.
C8_ActiveWeeksWithinTotalWeeks ==
    (result # <<>> /\ Len(transactions) >= 2 /\ SpanSeconds(transactions) >= DAY) =>
        LET d == result[1].factors.consistency.detail
        IN /\ d[1] = "Active"
           /\ d[2] <= d[3]
           /\ d[4] \in 0..100

\* C9: for a non-empty input the score is the weighted sum
\* 0.20 age + 0.20 volume + 0.25 successRate + 0.15 diversity + 0.20 consistency
\* of the factor scores of the same record, rounded once to the nearest
\* integer; every factor score and the score are integers in 0..100.
C9_ScoreIsRoundedWeightedSum ==
    (result # <<>> /\ ~EmptyInput) =>
        LET r == result[1]
            f == r.factors
            sum == 20 * f.age.score + 20 * f.volume.score + 25 * f.successRate.score
                   + 15 * f.diversity.score + 20 * f.consistency.score
        IN /\ \A x \in {f.age.score, f.volume.score, f.successRate.score,
                         f.diversity.score, f.consistency.score} : x \in 0..100
           /\ r.score \in 0..100
           /\ 100 * r.score - sum \in -50..50
           /\ 20 + 20 + 25 + 15 + 20 = 100

\* C9's case: a record whose weighted sum is not a whole number, with two
\* factors (25% of 90, 15% of 70) that would each round up on their own.
C9_Witness ==
    /\ result # <<>> /\ ~EmptyInput
    /\ result[1].factors.successRate.score = 90
    /\ result[1].factors.diversity.score = 70
    /\ result[1].score \in 1..99

\* The grade table of the documentation route: tier, lowest and highest score.
GradeTable ==
    { <<"AAA", 90, 100>>, <<"AA", 75, 89>>, <<"A", 60, 74>>,
      <<"BBB", 40, 59>>, <<"BB", 20, 39>>, <<"C", 0, 19>> }

TierRank(letter) ==
    CASE letter = "C" -> 0 [] letter = "BB" -> 1 [] letter = "BBB" -> 2
      [] letter = "A" -> 3 [] letter = "AA" -> 4 [] letter = "AAA" -> 5

\* C10: getGrade maps every integer score in 0..100 to exactly one tier of the
\* table (90..100 AAA, 75..89 AA, 60..74 A, 40..59 BBB, 20..39 BB, 0..19 C),
\* and no lower score gets a better tier.
C10_GradePartition ==
    gradeOut # <<>> =>
        /\ {t[1] : t \in {u \in GradeTable : gradeIn \in u[2]..u[3]}}
              = {gradeOut[1].letter}
        /\ \A s \in 0..gradeIn :
              TierRank(getGrade(s).letter) <= TierRank(gradeOut[1].letter)

\* C10's case: a boundary score and its lower neighbour have been graded.
C10_Witness ==
    /\ gradeIn = 90
    /\ gradeOut = <<[letter |-> "AAA", label |-> "Ultra Reliable"]>>

====
